---------------------------- MODULE Spec2Model ----------------------------
(***************************************************************************)
(* toroh-backend: the upload / generate-flashcards request lifecycle of    *)
(* src/controllers/documentController.js (and its legacy copy in           *)
(* src/server.js), the in-memory session store global.uploadedFiles with   *)
(* its setTimeout evictions, and the streaming flashcard extraction loop.  *)
(*                                                                         *)
(* Text is modelled as a sequence of one-character strings.                *)
(***************************************************************************)
EXTENDS Integers, Sequences, FiniteSets, TLC

(***************************************************************************)
(* Bounds of the model.                                                    *)
(***************************************************************************)
\* client requests (uploads, generate requests) and clock advances in a run
MaxOps == 4
\* chunks of one generation stream in the request lifecycle
MaxChunks == 1
\* chunks of one generation stream in the extraction runs
MaxRunChunks == 3
\* client requests and clock advances in a run with the passage of time
MaxLiveOps == 3

(***************************************************************************)
(* Characters and character classes.                                       *)
(***************************************************************************)
DQ == "\""
BS == "\\"

\* \s of the flashcard regex (the members that occur in the model's texts)
RegexWhitespace == {" ", "\t", "\n", "\r", "\f"}

\* . of the flashcard regex matches everything but line terminators
LineTerminators == {"\n", "\r"}

\* whitespace JSON.parse accepts between tokens
JsonWhitespace == {" ", "\t", "\n", "\r"}

\* characters JSON.parse rejects unescaped inside a string literal
JsonControlChars == {"\t", "\n", "\r", "\f"}

HexDigits == {"0", "1", "2", "3", "4", "5", "6", "7", "8", "9",
              "a", "b", "c", "d", "e", "f", "A", "B", "C", "D", "E", "F"}

KeyQuestion == <<DQ, "q", "u", "e", "s", "t", "i", "o", "n", DQ>>
KeyAnswer == <<DQ, "a", "n", "s", "w", "e", "r", DQ>>

(***************************************************************************)
(* String helpers.                                                         *)
(***************************************************************************)
Substring(s, from) == SubSeq(s, from + 1, Len(s))

RECURSIVE Concat(_)
Concat(ss) == IF ss = <<>> THEN <<>> ELSE Head(ss) \o Concat(Tail(ss))

\* String.prototype.indexOf(pat, from), as a position: 0 means "not found"
IndexOf(s, pat, from) ==
    LET found == {j \in from..(Len(s) - Len(pat) + 1) :
                     s[j] = pat[1] /\ SubSeq(s, j, j + Len(pat) - 1) = pat}
    IN  IF found = {} THEN 0
        ELSE CHOOSE j \in found : \A k \in found : j <= k

\* String.prototype.replaceAll(pat, ''), pat a non-empty string: the
\* occurrences are taken left to right, without overlap
RECURSIVE ReplaceAll(_, _)
ReplaceAll(s, pat) ==
    LET j == IndexOf(s, pat, 1)
    IN  IF j = 0 THEN s
        ELSE SubSeq(s, 1, j - 1)
               \o ReplaceAll(SubSeq(s, j + Len(pat), Len(s)), pat)

RECURSIVE TrimStart(_)
TrimStart(s) ==
    IF s # <<>> /\ Head(s) \in RegexWhitespace THEN TrimStart(Tail(s)) ELSE s

RECURSIVE TrimEnd(_)
TrimEnd(s) ==
    IF s # <<>> /\ s[Len(s)] \in RegexWhitespace
    THEN TrimEnd(SubSeq(s, 1, Len(s) - 1)) ELSE s

\* a slip: the text is tested without being trimmed
TrimNothing(s) == s

\* String.prototype.trim()
Trim(s) == TrimEnd(TrimStart(s))

(***************************************************************************)
(* The flashcard regex: an opening brace, the key "question", a colon, a    *)
(* string literal, a comma, the key "answer", a colon, a string literal    *)
(* and a closing brace, with optional whitespace between the tokens.  A    *)
(* string literal is a quote, then characters other than quote and         *)
(* backslash or backslash-escaped pairs, then a quote.                     *)
(* A position is an index into the text; position 0 means "no match".      *)
(* Every step of the pattern is deterministic: \s* is followed by a        *)
(* non-space literal, and a string body ends at its first unescaped quote. *)
(***************************************************************************)
RECURSIVE SkipWhile(_, _, _)
SkipWhile(s, i, class) ==
    IF i = 0 THEN 0
    ELSE IF i <= Len(s) /\ s[i] \in class THEN SkipWhile(s, i + 1, class)
    ELSE i

Literal(s, i, lit) ==
    IF i = 0 \/ i + Len(lit) - 1 > Len(s) THEN 0
    ELSE IF SubSeq(s, i, i + Len(lit) - 1) = lit THEN i + Len(lit)
    ELSE 0

\* the body of a string literal from position i: the position of the
\* closing quote
RECURSIVE RegexStringBody(_, _)
RegexStringBody(s, i) ==
    IF i = 0 \/ i > Len(s) THEN 0
    ELSE IF s[i] = DQ THEN i
    ELSE IF s[i] = BS
         THEN IF i + 1 <= Len(s) /\ s[i + 1] \notin LineTerminators
              THEN RegexStringBody(s, i + 2)
              ELSE 0
    ELSE RegexStringBody(s, i + 1)

\* a quoted string literal at position i: the position after its closing quote
RegexString(s, i) ==
    LET close == RegexStringBody(s, Literal(s, i, <<DQ>>))
    IN  IF close = 0 THEN 0 ELSE close + 1

\* the whole pattern anchored at position i: the position after the match
MatchAt(s, i) ==
    LET p1 == SkipWhile(s, Literal(s, i, <<"{">>), RegexWhitespace)
        p2 == SkipWhile(s, Literal(s, p1, KeyQuestion), RegexWhitespace)
        p3 == SkipWhile(s, Literal(s, p2, <<":">>), RegexWhitespace)
        p4 == SkipWhile(s, RegexString(s, p3), RegexWhitespace)
        p5 == SkipWhile(s, Literal(s, p4, <<",">>), RegexWhitespace)
        p6 == SkipWhile(s, Literal(s, p5, KeyAnswer), RegexWhitespace)
        p7 == SkipWhile(s, Literal(s, p6, <<":">>), RegexWhitespace)
        p8 == SkipWhile(s, RegexString(s, p7), RegexWhitespace)
    IN  Literal(s, p8, <<"}">>)

\* the start of the leftmost match at or after position i; 0 means none
\* (a match starts at an opening brace)
NextMatch(s, i) ==
    LET starts == {j \in i..Len(s) : s[j] = "{" /\ MatchAt(s, j) # 0}
    IN  IF starts = {} THEN 0
        ELSE CHOOSE j \in starts : \A k \in starts : j <= k

\* [...s.matchAll(flashcardRegex)]: the non-overlapping matches, left to
\* right, each with its index and its text (match.index, match[0])
RECURSIVE MatchAllFrom(_, _)
MatchAllFrom(s, i) ==
    LET b == NextMatch(s, i)
    IN  IF b = 0 THEN <<>>
        ELSE <<[index |-> b - 1, text |-> SubSeq(s, b, MatchAt(s, b) - 1)]>>
               \o MatchAllFrom(s, MatchAt(s, b))

MatchAll(s) == MatchAllFrom(s, 1)

(***************************************************************************)
(* JSON.parse of a matched span.  The span has the shape the regex fixes,  *)
(* so the parser walks that shape with JSON's own rules: JSON whitespace   *)
(* only, no raw control character inside a string, only JSON's escapes.    *)
(***************************************************************************)
ParseFailure == [ok |-> FALSE, value |-> <<>>, next |-> 0]

\* the character a JSON escape \c denotes (\b and \uXXXX are handled apart)
Unescape(c) ==
    CASE c = DQ -> DQ
      [] c = BS -> BS
      [] c = "/" -> "/"
      [] c = "n" -> "\n"
      [] c = "t" -> "\t"
      [] c = "r" -> "\r"
      [] c = "f" -> "\f"
      [] OTHER -> "<U+0008>"

\* a JSON string body from position i (after the opening quote): its
\* decoded value and the position after the closing quote
RECURSIVE JsonStringBody(_, _, _)
JsonStringBody(s, i, acc) ==
    IF i > Len(s) THEN ParseFailure
    ELSE IF s[i] = DQ THEN [ok |-> TRUE, value |-> acc, next |-> i + 1]
    ELSE IF s[i] \in JsonControlChars THEN ParseFailure
    ELSE IF s[i] = BS
         THEN IF i + 1 > Len(s) THEN ParseFailure
              ELSE IF s[i + 1] \in {DQ, BS, "/", "b", "f", "n", "r", "t"}
                   THEN JsonStringBody(s, i + 2, Append(acc, Unescape(s[i + 1])))
              ELSE IF s[i + 1] = "u" /\ i + 5 <= Len(s)
                      /\ \A k \in 2..5 : s[i + k] \in HexDigits
                   THEN JsonStringBody(s, i + 6, Append(acc, "<U+XXXX>"))
              ELSE ParseFailure
    ELSE JsonStringBody(s, i + 1, Append(acc, s[i]))

JsonString(s, i) ==
    IF Literal(s, i, <<DQ>>) = 0 THEN ParseFailure
    ELSE JsonStringBody(s, i + 1, <<>>)

\* JSON.parse(flashcardJson): [ok, question, answer]
JsonParse(s) ==
    LET p1 == SkipWhile(s, Literal(s, 1, <<"{">>), JsonWhitespace)
        p2 == SkipWhile(s, Literal(s, p1, KeyQuestion), JsonWhitespace)
        p3 == SkipWhile(s, Literal(s, p2, <<":">>), JsonWhitespace)
        q  == JsonString(s, p3)
        p4 == SkipWhile(s, q.next, JsonWhitespace)
        p5 == SkipWhile(s, Literal(s, p4, <<",">>), JsonWhitespace)
        p6 == SkipWhile(s, Literal(s, p5, KeyAnswer), JsonWhitespace)
        p7 == SkipWhile(s, Literal(s, p6, <<":">>), JsonWhitespace)
        a  == JsonString(s, p7)
        p8 == SkipWhile(s, a.next, JsonWhitespace)
        p9 == Literal(s, p8, <<"}">>)
    IN  IF q.ok /\ a.ok /\ p9 = Len(s) + 1
        THEN [ok |-> TRUE, question |-> q.value, answer |-> a.value]
        ELSE [ok |-> FALSE, question |-> <<>>, answer |-> <<>>]

(***************************************************************************)
(* The flashcard loop of generateFlashcards, applied to one chunk.         *)
(***************************************************************************)
\* a slip: completeResponse = chunk.text
AppendChunkOverwriting(completeResponse, text) == text

\* completeResponse += chunk.text
AppendChunk(completeResponse, text) == completeResponse \o text

\* completeResponse.substring(lastProcessedLength)
NewContent(completeResponse, lastProcessedLength) ==
    Substring(completeResponse, lastProcessedLength)

\* completeResponse.replaceAll(flashcardJson + ',', '')
Consume(completeResponse, flashcardJson) ==
    ReplaceAll(completeResponse, flashcardJson \o <<",">>)

\* a slip: only flashcard.question is checked
IsValidFlashcardQuestionOnly(flashcard) == flashcard.question # <<>>

\* flashcard.question && flashcard.answer
IsValidFlashcard(flashcard) ==
    flashcard.question # <<>> /\ flashcard.answer # <<>>

FlashcardEvent(flashcard, n) ==
    [type |-> "flashcard", question |-> flashcard.question,
     answer |-> flashcard.answer, chunk |-> n]

PlainEvent(type, n) ==
    [type |-> type, question |-> <<>>, answer |-> <<>>, chunk |-> n]

ConnectedEvent == PlainEvent("connected", 0)

\* a slip: JSON.parse is not guarded, and its failure reaches the outer
\* catch, which writes an error event and ends the response
ProcessMatchUnguarded(req, match) ==
    LET rewritten == Consume(req.completeResponse, match.text)
        flashcard == JsonParse(match.text)
    IN  IF req.pc = "ended" THEN req
        ELSE IF ~flashcard.ok
        THEN [req EXCEPT !.completeResponse = rewritten,
                         !.pc = "ended",
                         !.events = Append(@, PlainEvent("error", Len(req.chunks)))]
        ELSE IF IsValidFlashcard(flashcard)
        THEN [req EXCEPT !.completeResponse = rewritten,
                         !.events = Append(@, FlashcardEvent(flashcard, Len(req.chunks))),
                         !.allFlashcards = Append(@, [question |-> flashcard.question,
                                                      answer |-> flashcard.answer])]
        ELSE [req EXCEPT !.completeResponse = rewritten,
                         !.skipped = @ + 1]

\* the body of  for (const match of matches) { try { ... } catch { ... } }
ProcessMatch(req, match) ==
    LET rewritten == Consume(req.completeResponse, match.text)
        flashcard == JsonParse(match.text)
    IN  IF ~flashcard.ok
        THEN [req EXCEPT !.completeResponse = rewritten,
                         !.parseErrors = @ + 1]
        ELSE IF IsValidFlashcard(flashcard)
        THEN [req EXCEPT !.completeResponse = rewritten,
                         !.events = Append(@, FlashcardEvent(flashcard, Len(req.chunks))),
                         !.allFlashcards = Append(@, [question |-> flashcard.question,
                                                      answer |-> flashcard.answer])]
        ELSE [req EXCEPT !.completeResponse = rewritten,
                         !.skipped = @ + 1]

RECURSIVE ProcessMatches(_, _)
ProcessMatches(req, matches) ==
    IF matches = <<>> THEN req
    ELSE ProcessMatches(ProcessMatch(req, Head(matches)), Tail(matches))

\* the body of  for await (const chunk of responseStream) { ... }
ProcessChunk(req, text) ==
    LET received == [req EXCEPT !.chunks = Append(@, text)]
    IN  IF text = <<>> THEN received
        ELSE LET appended == [received EXCEPT
                                !.completeResponse = AppendChunk(@, text)]
                 matches == MatchAll(NewContent(appended.completeResponse,
                                                appended.lastProcessedLength))
             IN  ProcessMatches(appended, matches)

(***************************************************************************)
(* Program constants.                                                      *)
(***************************************************************************)
PdfMime == "application/pdf"
DocxMime == "application/vnd.openxmlformats-officedocument.wordprocessingml.document"

\* multer limits.fileSize
FileSizeLimit == 50 * 1024 * 1024

\* the delay of the clean-up setTimeout
TTL == 30 * 60 * 1000

\* keys every JavaScript object inherits: global.uploadedFiles[key] is truthy
PrototypeKeys == {"constructor"}
PrototypeValue ==
    [buffer |-> "undefined", mimetype |-> "undefined", originalname |-> "undefined"]

NoFileData == [buffer |-> "", mimetype |-> "", originalname |-> ""]

(***************************************************************************)
(* Inputs.                                                                 *)
(***************************************************************************)
\* multipart bodies of POST upload-document; present = FALSE: no documentFile
UploadRequests ==
    { [present |-> TRUE, buffer |-> "pdf-bytes", mimetype |-> PdfMime,
       originalname |-> "a.pdf", size |-> 1],
      [present |-> TRUE, buffer |-> "docx-bytes", mimetype |-> DocxMime,
       originalname |-> "b.docx", size |-> 1],
      [present |-> TRUE, buffer |-> "text-bytes", mimetype |-> "text/plain",
       originalname |-> "c.txt", size |-> 1],
      [present |-> TRUE, buffer |-> "big-pdf-bytes", mimetype |-> PdfMime,
       originalname |-> "d.pdf", size |-> FileSizeLimit + 1],
      [present |-> FALSE, buffer |-> "", mimetype |-> "",
       originalname |-> "", size |-> 0] }

\* results of the text-extraction collaborators (pdf-parse, mammoth)
ExtractedTexts == {<<>>, <<" ", "\n">>, <<"t", "e", "x", "t">>}

\* {"question":"<q>","answer":"<a>"}, q and a as written in the JSON text
RecordText(q, a) ==
    <<"{">> \o KeyQuestion \o <<":", DQ>> \o q \o <<DQ, ",">>
            \o KeyAnswer \o <<":", DQ>> \o a \o <<DQ, "}">>

CardAB == RecordText(<<"A">>, <<"B">>)

\* a record JSON.parse rejects, a record with an empty answer and the
\* record A/B, in one chunk
MixedChunk ==
    RecordText(<<BS, "A">>, <<"B">>) \o <<",">>
        \o RecordText(<<"B">>, <<>>) \o <<",">> \o CardAB

\* chunk texts of the generation stream in the request lifecycle
LifecycleChunks == {CardAB}

\* chunk texts of the generation stream in the extraction runs
RunChunks ==
    { CardAB,
      SubSeq(CardAB, 1, 20),                  \* the record up to the first half of its answer key
      SubSeq(CardAB, 21, Len(CardAB)),        \* ... and the rest of it
      SubSeq(CardAB, 1, 25),                  \* the record up to the colon of its answer
      SubSeq(CardAB, 26, Len(CardAB)),        \* ... and the rest of it
      <<",">>,
      <<"]">>,
      <<>>,
      RecordText(<<>>, <<"B">>),
      RecordText(<<"B">>, <<>>),
      RecordText(<<BS, "A">>, <<"B">>),
      MixedChunk,
      <<"{", " ">> \o KeyQuestion \o <<":", DQ, BS, DQ, "A", DQ, " ", ",">>
                   \o KeyAnswer \o <<":", " ", DQ, "B", DQ, "}", ",">> }

(***************************************************************************)
(* State.                                                                  *)
(***************************************************************************)
VARIABLES
    now,                  \* Date.now(), as an offset from process start
    ops,                  \* client requests and clock advances so far
    uploadedFilesDefined, \* global.uploadedFiles is not undefined
    uploadedFiles,        \* global.uploadedFiles: session id -> file data
    timers,               \* pending setTimeout clean-ups
    sessions,             \* history: the accepted uploads, in order
    lastUpload,           \* the response to the latest upload request
    removed,              \* history: ids deleted from uploadedFiles
    evicted,              \* history: ids whose clean-up timer has fired
    requests              \* the generate-flashcards requests

vars == <<now, ops, uploadedFilesDefined, uploadedFiles, timers, sessions,
          lastUpload, removed, evicted, requests>>

RequestIds == 1..MaxOps

IdleRequest ==
    [pc |-> "idle", sessionId |-> "", fileData |-> NoFileData,
     status |-> 0, body |-> "", events |-> <<>>,
     completeResponse |-> <<>>, lastProcessedLength |-> 0,
     allFlashcards |-> <<>>,
     chunks |-> <<>>, calls |-> <<>>,
     deletes |-> 0, deletedAfter |-> 0, deleteFound |-> FALSE,
     skipped |-> 0, parseErrors |-> 0,
     afterRemoval |-> FALSE, afterEviction |-> FALSE]

EmptyStore == [id \in {} |-> NoFileData]

Init ==
    /\ now = 0
    /\ ops = 0
    /\ uploadedFilesDefined = FALSE
    /\ uploadedFiles = EmptyStore
    /\ timers = {}
    /\ sessions = <<>>
    /\ lastUpload = [status |-> 0, body |-> "", sessionId |-> "",
                     mimetype |-> "", present |-> FALSE, created |-> FALSE]
    /\ removed = {}
    /\ evicted = {}
    /\ requests = [r \in RequestIds |-> IdleRequest]

(***************************************************************************)
(* The session store.                                                      *)
(***************************************************************************)
\* delete global.uploadedFiles[sessionId]
Delete(files, sessionId) ==
    [id \in DOMAIN files \ {sessionId} |-> files[id]]

\* global.uploadedFiles[sessionId] = {...}
Put(files, sessionId, fileData) ==
    [id \in DOMAIN files \cup {sessionId} |->
        IF id = sessionId THEN fileData ELSE files[id]]

\* the truthiness of global.uploadedFiles[sessionId]
HasEntry(files, sessionId) ==
    sessionId \in DOMAIN files \/ sessionId \in PrototypeKeys

\* global.uploadedFiles[sessionId], where HasEntry
Entry(files, sessionId) ==
    IF sessionId \in DOMAIN files THEN files[sessionId] ELSE PrototypeValue

\* Date.now().toString()
NewSessionId(clock) == ToString(clock)

\* a slip: the callback deletes nothing
CleanUpNothing(files, sessionId) == files

\* a slip: the callback resets the whole store
CleanUpEverything(files, sessionId) == [id \in {} |-> files[id]]

\* the callback of the clean-up setTimeout
CleanUp(files, sessionId) ==
    IF sessionId \in DOMAIN files THEN Delete(files, sessionId) ELSE files

(***************************************************************************)
(* The clock and the timers.                                               *)
(***************************************************************************)
Tick ==
    /\ ops < MaxOps
    /\ \E step \in {1, TTL} : now' = now + step
    /\ ops' = ops + 1
    /\ UNCHANGED <<uploadedFilesDefined, uploadedFiles, timers, sessions,
                   lastUpload, removed, evicted, requests>>

TimerFire(t) ==
    /\ t \in timers
    /\ now >= t.due
    /\ timers' = timers \ {t}
    /\ uploadedFiles' = CleanUp(uploadedFiles, t.sessionId)
    /\ removed' = removed \cup (DOMAIN uploadedFiles \ DOMAIN uploadedFiles')
    /\ evicted' = evicted \cup {t.sessionId}
    /\ UNCHANGED <<now, ops, uploadedFilesDefined, sessions, lastUpload, requests>>

(***************************************************************************)
(* POST upload-document: multer, then uploadDocument.                     *)
(***************************************************************************)
\* multer's fileFilter
FileFilterAccepts(file) == file.mimetype = PdfMime \/ file.mimetype = DocxMime

\* multer passes the file on to the handler
MulterAccepts(req) ==
    ~req.present \/ (FileFilterAccepts(req) /\ req.size <= FileSizeLimit)

\* the error-handling middleware
ErrorMiddlewareStatus == 500

\* multer fails the request with an error; the error middleware answers
UploadRejected(req) ==
    /\ ops < MaxOps
    /\ ops' = ops + 1
    /\ ~MulterAccepts(req)
    /\ lastUpload' = [status |-> ErrorMiddlewareStatus, body |-> "Internal server error",
                      sessionId |-> "", mimetype |-> req.mimetype,
                      present |-> req.present, created |-> FALSE]
    /\ UNCHANGED <<now, uploadedFilesDefined, uploadedFiles, timers,
                   sessions, removed, evicted, requests>>

UploadDocument(req) ==
    /\ ops < MaxOps
    /\ ops' = ops + 1
    /\ MulterAccepts(req)
    /\ IF ~req.present
       THEN /\ lastUpload' = [status |-> 400, body |-> "No file uploaded.",
                              sessionId |-> "", mimetype |-> req.mimetype,
                              present |-> req.present, created |-> FALSE]
            /\ UNCHANGED <<uploadedFilesDefined, uploadedFiles, timers, sessions>>
       ELSE LET sessionId == NewSessionId(now)
            IN  /\ uploadedFilesDefined' = TRUE
                /\ uploadedFiles' =
                      Put(uploadedFiles, sessionId,
                          [buffer |-> req.buffer, mimetype |-> req.mimetype,
                           originalname |-> req.originalname])
                /\ lastUpload' = [status |-> 200, body |-> "", sessionId |-> sessionId,
                                  mimetype |-> req.mimetype, present |-> req.present,
                                  created |-> TRUE]
                /\ timers' = timers \cup
                      {[n |-> Len(sessions) + 1, sessionId |-> sessionId,
                        due |-> now + TTL]}
                /\ sessions' = Append(sessions,
                      [sessionId |-> sessionId, buffer |-> req.buffer, at |-> now])
    /\ UNCHANGED <<now, removed, evicted, requests>>

(***************************************************************************)
(* GET generate-flashcards.  Each action runs the handler from one         *)
(* suspension point (an await) to the next.                                *)
(***************************************************************************)
SetRequest(r, req) == requests' = [requests EXCEPT ![r] = req]

\* session ids a client may send: every id ever issued, and others
SessionIdInputs ==
    {sessions[i].sessionId : i \in DOMAIN sessions} \cup {"", "constructor", "unknown"}

\* a slip: the catch block deletes the session as well
CatchErrorDeleting(r) ==
    LET req == requests[r]
    IN  /\ SetRequest(r, [req EXCEPT
              !.pc = "ended",
              !.status = IF @ = 0 THEN 200 ELSE @,
              !.events = Append(@, PlainEvent("error", Len(req.chunks))),
              !.deletes = @ + 1, !.deletedAfter = Len(req.events) + 1,
              !.deleteFound = req.sessionId \in DOMAIN uploadedFiles])
        /\ uploadedFiles' = Delete(uploadedFiles, req.sessionId)
        /\ removed' = removed \cup (DOMAIN uploadedFiles \ DOMAIN uploadedFiles')

\* a slip: the catch block reports the failure alone, without the cards
\* written before it
CatchErrorRetracting(r) ==
    LET req == requests[r]
    IN  /\ SetRequest(r, [req EXCEPT
              !.pc = "ended",
              !.status = IF @ = 0 THEN 200 ELSE @,
              !.events = Append(SelectSeq(@, LAMBDA e : e.type # "flashcard"),
                                PlainEvent("error", Len(req.chunks)))])
        /\ UNCHANGED <<uploadedFiles, removed>>

\* the catch block of generateFlashcards: an error event, then res.end();
\* writing to a response without headers sends status 200
CatchError(r) ==
    LET req == requests[r]
    IN  /\ SetRequest(r, [req EXCEPT
              !.pc = "ended",
              !.status = IF @ = 0 THEN 200 ELSE @,
              !.events = Append(@, PlainEvent("error", Len(req.chunks)))])
        /\ UNCHANGED <<uploadedFiles, removed>>

\* entry: the session check, then the first collaborator call
GenerateFlashcards(r, sessionId) ==
    LET req == [requests[r] EXCEPT
                   !.sessionId = sessionId,
                   !.afterRemoval = sessionId \in removed,
                   !.afterEviction = sessionId \in evicted]
    IN  /\ ops < MaxOps
        /\ ops' = ops + 1
        /\ requests[r].pc = "idle"
        /\ \A earlier \in 1..(r - 1) : requests[earlier].pc # "idle"
        /\ IF sessionId = "" \/ ~uploadedFilesDefined
              \/ ~HasEntry(uploadedFiles, sessionId)
           THEN SetRequest(r, [req EXCEPT
                    !.pc = "ended", !.status = 400,
                    !.body = "Invalid or expired session ID."])
           ELSE LET fileData == Entry(uploadedFiles, sessionId)
                IN  IF fileData.mimetype = PdfMime
                    THEN SetRequest(r, [req EXCEPT
                            !.pc = "extracting", !.fileData = fileData,
                            !.calls = Append(@, "pdf-parse")])
                    ELSE IF fileData.mimetype = DocxMime
                    THEN SetRequest(r, [req EXCEPT
                            !.pc = "extracting", !.fileData = fileData,
                            !.calls = Append(@, "mammoth")])
                    ELSE SetRequest(r, [req EXCEPT
                            !.pc = "ended", !.fileData = fileData, !.status = 400,
                            !.body = "Unsupported file type for text extraction."])
        /\ UNCHANGED <<now, uploadedFilesDefined, uploadedFiles, timers,
                       sessions, lastUpload, removed, evicted>>

\* the text-extraction collaborator resolves
ExtractionReturns(r, extractedText) ==
    LET req == requests[r]
    IN  /\ req.pc = "extracting"
        /\ IF Trim(extractedText) = <<>>
           THEN SetRequest(r, [req EXCEPT
                    !.pc = "ended", !.status = 400,
                    !.body = "Could not extract text from the document or the document is empty."])
           ELSE SetRequest(r, [req EXCEPT
                    !.pc = "generating", !.status = 200,
                    !.events = Append(@, ConnectedEvent),
                    !.calls = Append(@, "generateContentStream")])
        /\ UNCHANGED <<now, ops, uploadedFilesDefined, uploadedFiles, timers,
                       sessions, lastUpload, removed, evicted>>

\* the text-extraction collaborator rejects
ExtractionThrows(r) ==
    /\ requests[r].pc = "extracting"
    /\ CatchError(r)
    /\ UNCHANGED <<now, ops, uploadedFilesDefined, timers, sessions,
                   lastUpload, evicted>>

\* generateContentStream resolves with the response stream
GenerationStarts(r) ==
    /\ requests[r].pc = "generating"
    /\ SetRequest(r, [requests[r] EXCEPT !.pc = "streaming"])
    /\ UNCHANGED <<now, ops, uploadedFilesDefined, uploadedFiles, timers,
                   sessions, lastUpload, removed, evicted>>

\* generateContentStream rejects
GenerationThrows(r) ==
    /\ requests[r].pc = "generating"
    /\ CatchError(r)
    /\ UNCHANGED <<now, ops, uploadedFilesDefined, timers, sessions,
                   lastUpload, evicted>>

\* the stream yields a chunk
StreamChunk(r, text) ==
    /\ requests[r].pc = "streaming"
    /\ SetRequest(r, ProcessChunk(requests[r], text))
    /\ UNCHANGED <<now, ops, uploadedFilesDefined, uploadedFiles, timers,
                   sessions, lastUpload, removed, evicted>>

\* the stream fails
StreamThrows(r) ==
    /\ requests[r].pc = "streaming"
    /\ CatchError(r)
    /\ UNCHANGED <<now, ops, uploadedFilesDefined, timers, sessions,
                   lastUpload, evicted>>

\* a slip: deleting an id that is not in the store throws, and the inner
\* catch writes an error event after the complete event
StreamEndsThrowingOnAbsent(r) ==
    LET req == requests[r]
        written == Append(req.events, PlainEvent("complete", Len(req.chunks)))
        found == req.sessionId \in DOMAIN uploadedFiles
    IN  /\ req.pc = "streaming"
        /\ uploadedFiles' = Delete(uploadedFiles, req.sessionId)
        /\ removed' = removed \cup (DOMAIN uploadedFiles \ DOMAIN uploadedFiles')
        /\ SetRequest(r, [req EXCEPT
              !.pc = "ended",
              !.events = IF found THEN written
                         ELSE Append(written, PlainEvent("error", Len(req.chunks))),
              !.deletes = @ + 1, !.deletedAfter = Len(written),
              !.deleteFound = found])
        /\ UNCHANGED <<now, ops, uploadedFilesDefined, timers, sessions,
                       lastUpload, evicted>>

\* a slip: the session is deleted before the complete event is written
StreamEndsDeletingFirst(r) ==
    LET req == requests[r]
        written == Append(req.events, PlainEvent("complete", Len(req.chunks)))
    IN  /\ req.pc = "streaming"
        /\ uploadedFiles' = Delete(uploadedFiles, req.sessionId)
        /\ removed' = removed \cup (DOMAIN uploadedFiles \ DOMAIN uploadedFiles')
        /\ SetRequest(r, [req EXCEPT
              !.pc = "ended", !.events = written,
              !.deletes = @ + 1, !.deletedAfter = Len(req.events),
              !.deleteFound = req.sessionId \in DOMAIN uploadedFiles])
        /\ UNCHANGED <<now, ops, uploadedFilesDefined, timers, sessions,
                       lastUpload, evicted>>

\* the stream ends: the complete event, the delete, res.end()
StreamEnds(r) ==
    LET req == requests[r]
        written == Append(req.events, PlainEvent("complete", Len(req.chunks)))
    IN  /\ req.pc = "streaming"
        /\ uploadedFiles' = Delete(uploadedFiles, req.sessionId)
        /\ removed' = removed \cup (DOMAIN uploadedFiles \ DOMAIN uploadedFiles')
        /\ SetRequest(r, [req EXCEPT
              !.pc = "ended", !.events = written,
              !.deletes = @ + 1, !.deletedAfter = Len(written),
              !.deleteFound = req.sessionId \in DOMAIN uploadedFiles])
        /\ UNCHANGED <<now, ops, uploadedFilesDefined, timers, sessions,
                       lastUpload, evicted>>

(***************************************************************************)
(* The request lifecycle.                                                  *)
(***************************************************************************)
LifecycleChunk(r) ==
    \E text \in LifecycleChunks :
        /\ Len(requests[r].chunks) < MaxChunks
        /\ StreamChunk(r, text)

Eviction == \E t \in timers : TimerFire(t)

Generate(r) == \E sessionId \in SessionIdInputs : GenerateFlashcards(r, sessionId)

Extraction(r) == \E text \in ExtractedTexts : ExtractionReturns(r, text)

Next ==
    \/ Tick
    \/ Eviction
    \/ \E req \in UploadRequests : UploadRejected(req)
    \/ \E req \in UploadRequests : UploadDocument(req)
    \/ \E r \in RequestIds : Generate(r)
    \/ \E r \in RequestIds : Extraction(r)
    \/ \E r \in RequestIds : ExtractionThrows(r)
    \/ \E r \in RequestIds : GenerationStarts(r)
    \/ \E r \in RequestIds : GenerationThrows(r)
    \/ \E r \in RequestIds : LifecycleChunk(r)
    \/ \E r \in RequestIds : StreamThrows(r)
    \/ \E r \in RequestIds : StreamEnds(r)

Spec == Init /\ [][Next]_vars

(***************************************************************************)
(* The request lifecycle with the passage of time: the clock goes on to    *)
(* the moment the earliest pending timer is due, and a due timer fires.    *)
(***************************************************************************)
EarliestDue == CHOOSE due \in {t.due : t \in timers} : \A t \in timers : due <= t.due

TimePasses ==
    /\ timers # {}
    /\ now < EarliestDue
    /\ now' = EarliestDue
    /\ UNCHANGED <<ops, uploadedFilesDefined, uploadedFiles, timers, sessions,
                   lastUpload, removed, evicted, requests>>

\* a further client request or clock advance is within the budget
LiveBudget == ops < MaxLiveOps

NextLive ==
    \/ TimePasses
    \/ Eviction
    \/ LiveBudget /\ Tick
    \/ LiveBudget /\ \E req \in UploadRequests : UploadRejected(req)
    \/ LiveBudget /\ \E req \in UploadRequests : UploadDocument(req)
    \/ LiveBudget /\ \E r \in RequestIds : Generate(r)
    \/ \E r \in RequestIds : Extraction(r)
    \/ \E r \in RequestIds : ExtractionThrows(r)
    \/ \E r \in RequestIds : GenerationStarts(r)
    \/ \E r \in RequestIds : GenerationThrows(r)
    \/ \E r \in RequestIds : LifecycleChunk(r)
    \/ \E r \in RequestIds : StreamThrows(r)
    \/ \E r \in RequestIds : StreamEnds(r)

SpecLive ==
    Init /\ [][NextLive]_vars /\ WF_vars(TimePasses) /\ WF_vars(Eviction)

(***************************************************************************)
(* The extraction runs: request 1 streams any chunk sequence; request 2    *)
(* is a second run of the loop, fed the same chunks in the same order.     *)
(***************************************************************************)
StreamingRequest ==
    [IdleRequest EXCEPT
        !.pc = "streaming", !.sessionId = NewSessionId(0),
        !.fileData = [buffer |-> "pdf-bytes", mimetype |-> PdfMime,
                      originalname |-> "a.pdf"],
        !.status = 200, !.events = <<ConnectedEvent>>,
        !.calls = <<"pdf-parse", "generateContentStream">>]

InitExtract ==
    /\ now = 0
    /\ ops = 3
    /\ uploadedFilesDefined = TRUE
    /\ uploadedFiles = Put(EmptyStore, NewSessionId(0), StreamingRequest.fileData)
    /\ timers = {[n |-> 1, sessionId |-> NewSessionId(0), due |-> TTL]}
    /\ sessions = <<[sessionId |-> NewSessionId(0), buffer |-> "pdf-bytes", at |-> 0]>>
    /\ lastUpload = [status |-> 200, body |-> "", sessionId |-> NewSessionId(0),
                     mimetype |-> PdfMime, present |-> TRUE, created |-> TRUE]
    /\ removed = {}
    /\ evicted = {}
    /\ requests = [r \in RequestIds |->
                      IF r <= 2 THEN StreamingRequest ELSE IdleRequest]

RunChunk ==
    \E text \in RunChunks :
        /\ Len(requests[1].chunks) < MaxRunChunks
        /\ StreamChunk(1, text)

RunEnds == StreamEnds(1)

RerunChunk ==
    /\ requests[1].pc = "ended"
    /\ Len(requests[2].chunks) < Len(requests[1].chunks)
    /\ StreamChunk(2, requests[1].chunks[Len(requests[2].chunks) + 1])

RerunEnds ==
    /\ requests[1].pc = "ended"
    /\ Len(requests[2].chunks) = Len(requests[1].chunks)
    /\ StreamEnds(2)

NextExtract == RunChunk \/ RunEnds \/ RerunChunk \/ RerunEnds

SpecExtract == InitExtract /\ [][NextExtract]_vars

(***************************************************************************)
(* Vocabulary of the properties.                                           *)
(***************************************************************************)
Card(question, answer) == [question |-> question, answer |-> answer]

RECURSIVE CountOf(_, _)
CountOf(seq, x) ==
    IF seq = <<>> THEN 0
    ELSE (IF Head(seq) = x THEN 1 ELSE 0) + CountOf(Tail(seq), x)

Range(seq) == {seq[i] : i \in DOMAIN seq}

\* the cards of the flashcard events written so far, in order
RECURSIVE EmittedCards(_)
EmittedCards(events) ==
    IF events = <<>> THEN <<>>
    ELSE (IF Head(events).type = "flashcard"
          THEN <<Card(Head(events).question, Head(events).answer)>>
          ELSE <<>>) \o EmittedCards(Tail(events))

HasEvent(req, type) == \E i \in DOMAIN req.events : req.events[i].type = type

Completed(req) == req.pc = "ended" /\ HasEvent(req, "complete")

\* a matched span that is a well-formed record with both fields non-empty
WellFormed(match) ==
    LET parsed == JsonParse(match.text)
    IN  parsed.ok /\ parsed.question # <<>> /\ parsed.answer # <<>>

\* the well-formed records of a text, left to right, as matches
WellFormedMatches(text) == SelectSeq(MatchAll(text), WellFormed)

RECURSIVE CardsOf(_)
CardsOf(matches) ==
    IF matches = <<>> THEN <<>>
    ELSE LET parsed == JsonParse(Head(matches).text)
         IN  <<Card(parsed.question, parsed.answer)>> \o CardsOf(Tail(matches))

\* the text the generation stream has delivered in its first k chunks
Delivered(req, k) == Concat(SubSeq(req.chunks, 1, k))

AllDelivered(req) == Delivered(req, Len(req.chunks))

(***************************************************************************)
(* C1.  When the stream ends, every well-formed record of the delivered    *)
(* text has been emitted exactly once: each card has as many flashcard     *)
(* events as it has well-formed occurrences in the concatenated chunks.    *)
(***************************************************************************)
C1_EachRecordEmittedExactlyOnce ==
    \A r \in RequestIds :
        Completed(requests[r]) =>
            LET emitted == EmittedCards(requests[r].events)
                present == CardsOf(WellFormedMatches(AllDelivered(requests[r])))
            IN  \A card \in Range(emitted) \cup Range(present) :
                    CountOf(emitted, card) = CountOf(present, card)

(***************************************************************************)
(* C6.  No flashcard event carries an empty question or an empty answer.   *)
(***************************************************************************)
C6_NoEmptyFieldEmitted ==
    \A r \in RequestIds :
        \A i \in DOMAIN requests[r].events :
            requests[r].events[i].type = "flashcard" =>
                /\ requests[r].events[i].question # <<>>
                /\ requests[r].events[i].answer # <<>>

\* a record with an empty answer was matched in two scans and dropped in
\* both, in a stream that also emitted a card and completed
C6_Witness ==
    /\ Completed(requests[1])
    /\ Len(requests[1].chunks) >= 2
    /\ requests[1].chunks[1] = RecordText(<<"B">>, <<>>)
    /\ requests[1].skipped >= 2
    /\ EmittedCards(requests[1].events) # <<>>

(***************************************************************************)
(* C7.  A record is emitted while the chunk that delivers its closing part *)
(* is processed: in the step that processes chunk k, every well-formed     *)
(* record of the text delivered by chunks 1..k that ends inside chunk k,   *)
(* split over earlier chunks or not, gets a flashcard event with its card, *)
(* written in that step and before any complete event.  The two chunks of  *)
(* the split record A/B yield exactly one flashcard event.                 *)
(***************************************************************************)
ClosedByChunk(req, k) ==
    LET before == Len(Delivered(req, k - 1))
    IN  SelectSeq(WellFormedMatches(Delivered(req, k)),
                  LAMBDA m : m.index + Len(m.text) > before)

EmittedDuring(req, k, card, after) ==
    \E i \in DOMAIN req.events :
        /\ i > after
        /\ req.events[i] = FlashcardEvent(card, k)
        /\ \A j \in 1..i : req.events[j].type # "complete"

SplitAB == <<SubSeq(CardAB, 1, 20), SubSeq(CardAB, 21, Len(CardAB))>>

C7_EmittedWhenClosingChunkArrives ==
    [][ \A r \in RequestIds :
          /\ requests'[r].chunks # requests[r].chunks =>
                LET k == Len(requests'[r].chunks)
                IN  \A card \in Range(CardsOf(ClosedByChunk(requests'[r], k))) :
                        EmittedDuring(requests'[r], k, card, Len(requests[r].events))
          /\ (Completed(requests'[r]) /\ requests'[r].chunks = SplitAB) =>
                EmittedCards(requests'[r].events) = <<Card(<<"A">>, <<"B">>)>> ]_vars

\* the split record A/B has been streamed in two chunks and its card was
\* written during the second
C7_Witness ==
    /\ requests[1].pc = "streaming"
    /\ requests[1].chunks = SplitAB
    /\ EmittedDuring(requests[1], 2, Card(<<"A">>, <<"B">>), 1)

(***************************************************************************)
(* C8.  Two runs of the loop over the same chunks write the same flashcard *)
(* events, and no run emits a card more often than the delivered text      *)
(* holds it.                                                               *)
(***************************************************************************)
NoDuplicates(req) ==
    LET emitted == EmittedCards(req.events)
        present == CardsOf(WellFormedMatches(AllDelivered(req)))
    IN  \A card \in Range(emitted) : CountOf(emitted, card) <= CountOf(present, card)

C8_RerunIdenticalWithoutDuplicates ==
    (/\ Completed(requests[1])
     /\ Completed(requests[2])
     /\ requests[1].chunks = requests[2].chunks) =>
        /\ EmittedCards(requests[1].events) = EmittedCards(requests[2].events)
        /\ NoDuplicates(requests[1])
        /\ NoDuplicates(requests[2])

(***************************************************************************)
(* C2.  Accepted uploads of distinct payloads have distinct session ids,   *)
(* and the entry stored under an upload's id holds that upload's payload   *)
(* for as long as the id is in the store.                                  *)
(***************************************************************************)
C2_DistinctUploadsDistinctSessions ==
    /\ \A i, j \in DOMAIN sessions :
          (i < j /\ sessions[i].buffer # sessions[j].buffer) =>
              sessions[i].sessionId # sessions[j].sessionId
    /\ \A i \in DOMAIN sessions :
          sessions[i].sessionId \in DOMAIN uploadedFiles =>
              uploadedFiles[sessions[i].sessionId].buffer = sessions[i].buffer

(***************************************************************************)
(* C3.  A session id that has been removed from the store is never in the  *)
(* store again, and a generate request made for it after the removal is    *)
(* answered with the invalid-or-expired-session error and no data.         *)
(***************************************************************************)
C3_RemovedSessionNeverReappears ==
    /\ \A id \in removed : id \notin DOMAIN uploadedFiles
    /\ \A r \in RequestIds :
          requests[r].afterRemoval =>
              /\ requests[r].status = 400
              /\ requests[r].body = "Invalid or expired session ID."
              /\ requests[r].events = <<>>

(***************************************************************************)
(* C4.  A generate request for an id whose clean-up timer has fired is     *)
(* answered with status 400 and the invalid-or-expired-session message,    *)
(* with no event and no collaborator call; and the firing of the timer of  *)
(* id X leaves every entry stored under another id as it was, adds none,   *)
(* and leaves the store unchanged when X is absent.                        *)
(***************************************************************************)
AnsweredSessionNotFound(req) ==
    /\ req.pc = "ended"
    /\ req.status = 400
    /\ req.body = "Invalid or expired session ID."
    /\ req.events = <<>>
    /\ req.calls = <<>>

C4_EvictedSessionNotFoundOthersKept ==
    [][ /\ \A r \in RequestIds :
              requests'[r].afterEviction => AnsweredSessionNotFound(requests'[r])
        /\ \A t \in timers \ timers' :
              /\ DOMAIN uploadedFiles' \subseteq DOMAIN uploadedFiles
              /\ \A id \in DOMAIN uploadedFiles \ {t.sessionId} :
                    /\ id \in DOMAIN uploadedFiles'
                    /\ uploadedFiles'[id] = uploadedFiles[id]
              /\ t.sessionId \notin DOMAIN uploadedFiles =>
                    uploadedFiles' = uploadedFiles ]_vars

\* the timer of one session has fired and removed it, a later upload is
\* still stored, and a request for the evicted id got the 400 answer
C4_Witness ==
    \E r \in RequestIds :
        /\ requests[r].afterEviction
        /\ AnsweredSessionNotFound(requests[r])
        /\ requests[r].sessionId \in removed
        /\ Len(sessions) = 2
        /\ DOMAIN uploadedFiles = {sessions[2].sessionId}
        /\ sessions[2].sessionId # requests[r].sessionId

(***************************************************************************)
(* C5.  An upload whose content type is neither PDF nor DOCX is answered   *)
(* with a 4xx status, and it creates no session.                           *)
(***************************************************************************)
C5_UnsupportedTypeIsClientError ==
    (lastUpload.present /\ lastUpload.mimetype \notin {PdfMime, DocxMime}) =>
        /\ lastUpload.status \in 400..499
        /\ ~lastUpload.created
        /\ lastUpload.sessionId = ""

(***************************************************************************)
(* C9.  A generate request executes its delete at most once; it has done   *)
(* so exactly once when it has written complete and not at all otherwise;  *)
(* the last event written before the delete is its complete event; and a   *)
(* step of a request that has not written complete leaves the keys of the  *)
(* store as they were.                                                     *)
(***************************************************************************)
C9_DeletedOnceAfterComplete ==
    [][ \A r \in RequestIds :
          LET req == requests'[r]
          IN  /\ req.deletes <= 1
              /\ req.deletes = (IF HasEvent(req, "complete") THEN 1 ELSE 0)
              /\ req.deletes = 1 =>
                    /\ req.deletedAfter = Len(req.events)
                    /\ req.events[req.deletedAfter].type = "complete"
              /\ (req # requests[r] /\ ~HasEvent(req, "complete")) =>
                    DOMAIN uploadedFiles' = DOMAIN uploadedFiles ]_vars

\* a request streamed a card, wrote complete and then removed its session
C9_Witness ==
    \E r \in RequestIds :
        /\ Completed(requests[r])
        /\ requests[r].deletes = 1
        /\ EmittedCards(requests[r].events) # <<>>
        /\ requests[r].sessionId \in removed
        /\ requests[r].sessionId \notin DOMAIN uploadedFiles

(***************************************************************************)
(* C10.  A generate request that ends without complete leaves the store    *)
(* and the timers unchanged, and a generate request for an id that is in   *)
(* the store passes the session check and goes on to text extraction with  *)
(* the stored file.                                                        *)
(***************************************************************************)
Failed(req) == req.pc = "ended" /\ ~HasEvent(req, "complete")

C10_FailureKeepsSessionForRetry ==
    [][ \A r \in RequestIds :
          /\ (requests[r].pc # "ended" /\ Failed(requests'[r])) =>
                /\ uploadedFiles' = uploadedFiles
                /\ timers' = timers
          /\ (/\ requests[r].pc = "idle"
              /\ requests'[r].pc # "idle"
              /\ requests'[r].sessionId \in DOMAIN uploadedFiles) =>
                /\ requests'[r].pc = "extracting"
                /\ requests'[r].fileData = uploadedFiles[requests'[r].sessionId] ]_vars

\* request 1 failed after the stream was opened; request 2, for the same
\* session and with no upload in between, passed the session check
C10_Witness ==
    /\ Len(sessions) = 1
    /\ Failed(requests[1])
    /\ HasEvent(requests[1], "error")
    /\ requests[1].sessionId = sessions[1].sessionId
    /\ requests[2].sessionId = requests[1].sessionId
    /\ requests[2].pc = "streaming"
    /\ requests[2].fileData = requests[1].fileData

(***************************************************************************)
(* C11.  When a generate request deletes its session at the end of the     *)
(* stream, no clean-up timer for that session id is pending afterwards;    *)
(* and a delete of an id that is not in the store leaves the store as it   *)
(* was.                                                                    *)
(***************************************************************************)
C11_RemovalCancelsEviction ==
    [][ \A r \in RequestIds :
          requests'[r].deletes > requests[r].deletes =>
              /\ \A t \in timers' : t.sessionId # requests'[r].sessionId
              /\ requests'[r].sessionId \notin DOMAIN uploadedFiles =>
                    uploadedFiles' = uploadedFiles ]_vars

(***************************************************************************)
(* C12.  The events of a response whose stream was opened are: connected,  *)
(* first and once; then flashcard events only; then, once the handler has  *)
(* ended, one terminal event, complete or error, as the last event.  A     *)
(* step never removes or changes an event already written, and an ended    *)
(* request writes nothing more.  The terminal event is complete when the   *)
(* generation stream ends and error when generation fails, before or       *)
(* during streaming.                                                       *)
(***************************************************************************)
\* res.writeHead has run: it runs in the step that calls generateContentStream
StreamOpened(req) ==
    \E i \in DOMAIN req.calls : req.calls[i] = "generateContentStream"

Last(seq) == seq[Len(seq)]

IsPrefix(short, long) ==
    Len(short) <= Len(long) /\ SubSeq(long, 1, Len(short)) = short

StreamShape(req) ==
    /\ req.events # <<>>
    /\ req.events[1] = ConnectedEvent
    /\ \A i \in 2..Len(req.events) :
          IF i = Len(req.events) /\ req.pc = "ended"
          THEN req.events[i].type \in {"complete", "error"}
          ELSE req.events[i].type = "flashcard"
    /\ req.pc = "ended" => Len(req.events) >= 2

C12_StreamShape ==
    [][ \A r \in RequestIds :
          /\ StreamOpened(requests'[r]) => StreamShape(requests'[r])
          /\ IsPrefix(requests[r].events, requests'[r].events)
          /\ requests[r].pc = "ended" => requests'[r] = requests[r]
          /\ StreamEnds(r) => Last(requests'[r].events).type = "complete"
          /\ (GenerationThrows(r) \/ StreamThrows(r)) =>
                Last(requests'[r].events).type = "error" ]_vars

\* a stream that wrote a card and then failed: connected, flashcard, error
C12_Witness ==
    \E r \in RequestIds :
        /\ requests[r].pc = "ended"
        /\ StreamOpened(requests[r])
        /\ Len(requests[r].events) = 3
        /\ requests[r].events[2].type = "flashcard"
        /\ requests[r].events[3].type = "error"

(***************************************************************************)
(* C13.  A generate request that ends without its stream having been       *)
(* opened is answered with an HTTP error status and an error body, and no  *)
(* event is written for it; an error event is written only to an opened    *)
(* stream.                                                                 *)
(***************************************************************************)
C13_FailureBeforeStreamIsHttpError ==
    \A r \in RequestIds :
        /\ (requests[r].pc = "ended" /\ ~StreamOpened(requests[r])) =>
              /\ requests[r].status >= 400
              /\ requests[r].body # ""
              /\ requests[r].events = <<>>
        /\ HasEvent(requests[r], "error") => StreamOpened(requests[r])

(***************************************************************************)
(* C14.  A generate request whose session id is empty or not in the store  *)
(* ends in its first step with status 400, before any collaborator call    *)
(* and any event; so does one whose stored entry is neither PDF nor DOCX;  *)
(* and when text extraction returns a text that is empty or all            *)
(* whitespace the request ends with status 400 without a call of           *)
(* generateContentStream and without an event.                             *)
(***************************************************************************)
IsBlank(text) == \A i \in DOMAIN text : text[i] \in RegexWhitespace

RejectedBeforeCollaborators(req) ==
    /\ req.pc = "ended"
    /\ req.status = 400
    /\ req.calls = <<>>
    /\ req.events = <<>>

C14_ErrorsBeforeCollaborators ==
    [][ \A r \in RequestIds :
          /\ (/\ requests[r].pc = "idle"
              /\ requests'[r].pc # "idle"
              /\ \/ requests'[r].sessionId \notin DOMAIN uploadedFiles
                 \/ uploadedFiles[requests'[r].sessionId].mimetype
                       \notin {PdfMime, DocxMime}) =>
                RejectedBeforeCollaborators(requests'[r])
          /\ \A text \in ExtractedTexts :
                (ExtractionReturns(r, text) /\ IsBlank(text)) =>
                    /\ requests'[r].pc = "ended"
                    /\ requests'[r].status = 400
                    /\ ~StreamOpened(requests'[r])
                    /\ requests'[r].events = <<>> ]_vars

\* three requests have ended early: one for an id that is not in the
\* store, one that read an entry without a supported format, and one whose
\* extracted text was blank after its extraction call
C14_Witness ==
    \E r1, r2, r3 \in RequestIds :
        /\ AnsweredSessionNotFound(requests[r1])
        /\ RejectedBeforeCollaborators(requests[r2])
        /\ requests[r2].body = "Unsupported file type for text extraction."
        /\ requests[r3].pc = "ended"
        /\ requests[r3].status = 400
        /\ requests[r3].body = "Could not extract text from the document or the document is empty."
        /\ Len(requests[r3].calls) = 1
        /\ requests[r3].events = <<>>

(***************************************************************************)
(* C15.  Every entry of the store was put there by an accepted upload and  *)
(* has a clean-up timer pending for its id; and, when time passes and due  *)
(* timers fire, every accepted upload's session is eventually absent from  *)
(* the store, whether or not a generate request is made for it.            *)
(***************************************************************************)
StoredWithTimer ==
    \A id \in DOMAIN uploadedFiles :
        /\ \E i \in DOMAIN sessions : sessions[i].sessionId = id
        /\ \E t \in timers : t.sessionId = id /\ t.due <= now + TTL

Stored(i) ==
    i \in DOMAIN sessions /\ sessions[i].sessionId \in DOMAIN uploadedFiles

Gone(i) ==
    i \in DOMAIN sessions /\ sessions[i].sessionId \notin DOMAIN uploadedFiles

C15_EverySessionEventuallyRemoved ==
    /\ []StoredWithTimer
    /\ \A i \in 1..MaxLiveOps : Stored(i) ~> Gone(i)

\* a session that no generate request was ever made for has been removed
\* by its timer
C15_Witness ==
    /\ sessions # <<>>
    /\ \A r \in RequestIds : requests[r].pc = "idle"
    /\ uploadedFiles = EmptyStore
    /\ removed = {sessions[1].sessionId}
    /\ evicted = removed

(***************************************************************************)
(* C16.  The flashcard events of a stream follow the order of the records  *)
(* in the delivered text: of two events, the earlier one's card has an     *)
(* occurrence in the text that is not after every occurrence of the later  *)
(* one's card.                                                             *)
(***************************************************************************)
PositionsOf(seq, x) == {i \in DOMAIN seq : seq[i] = x}

C16_EventsPreserveTextOrder ==
    \A r \in RequestIds :
        Completed(requests[r]) =>
            LET emitted == EmittedCards(requests[r].events)
                present == CardsOf(WellFormedMatches(AllDelivered(requests[r])))
            IN  \A i, j \in DOMAIN emitted :
                    (/\ i < j
                     /\ PositionsOf(present, emitted[i]) # {}
                     /\ PositionsOf(present, emitted[j]) # {}) =>
                        \E a \in PositionsOf(present, emitted[i]) :
                            \E b \in PositionsOf(present, emitted[j]) : a <= b

(***************************************************************************)
(* C17.  Generate requests for one session id run side by side: a step of  *)
(* one request changes no other request; a request for an id that is in    *)
(* the store passes the lookup whatever other requests are in flight; the  *)
(* delete at the end of a stream follows a complete event, adds no error   *)
(* event, removes at most the request's own id and leaves the store as it  *)
(* was when the id is already absent; and two completed requests that      *)
(* received the same chunks have written the same events.                  *)
(***************************************************************************)
C17_ConcurrentRequestsIndependent ==
    [][ \A r \in RequestIds :
          /\ requests'[r] # requests[r] =>
                \A other \in RequestIds \ {r} : requests'[other] = requests[other]
          /\ (/\ requests[r].pc = "idle"
              /\ requests'[r].pc # "idle"
              /\ requests'[r].sessionId \in DOMAIN uploadedFiles) =>
                requests'[r].pc = "extracting"
          /\ requests'[r].deletes > requests[r].deletes =>
                /\ Completed(requests'[r])
                /\ Last(requests'[r].events).type = "complete"
                /\ ~HasEvent(requests'[r], "error")
                /\ DOMAIN uploadedFiles' =
                      DOMAIN uploadedFiles \ {requests'[r].sessionId}
                /\ ~requests'[r].deleteFound => uploadedFiles' = uploadedFiles
          /\ \A other \in RequestIds :
                (/\ Completed(requests'[r])
                 /\ Completed(requests'[other])
                 /\ requests'[r].chunks = requests'[other].chunks) =>
                    requests'[r].events = requests'[other].events ]_vars

\* two requests for the one uploaded session both passed the lookup, both
\* streamed a card and completed; the delete of the second found the entry
\* already deleted by the first
C17_Witness ==
    \E r1, r2 \in RequestIds :
        /\ Len(sessions) = 1
        /\ evicted = {}
        /\ requests[r1].sessionId = sessions[1].sessionId
        /\ requests[r2].sessionId = sessions[1].sessionId
        /\ Completed(requests[r1]) /\ Completed(requests[r2])
        /\ EmittedCards(requests[r1].events) # <<>>
        /\ EmittedCards(requests[r2].events) # <<>>
        /\ requests[r1].deletes = 1 /\ requests[r1].deleteFound
        /\ requests[r2].deletes = 1 /\ ~requests[r2].deleteFound

(***************************************************************************)
(* C18.  A stream in which a matched span failed to parse or failed the    *)
(* field check goes on: it has no error event, every well-formed record    *)
(* of the text delivered so far has a flashcard event, and when the        *)
(* stream has ended it has ended with complete.                            *)
(***************************************************************************)
C18_BadRecordSkippedStreamGoesOn ==
    \A r \in RequestIds :
        (requests[r].parseErrors > 0 \/ requests[r].skipped > 0) =>
            /\ ~HasEvent(requests[r], "error")
            /\ \A card \in Range(CardsOf(WellFormedMatches(AllDelivered(requests[r])))) :
                  card \in Range(EmittedCards(requests[r].events))
            /\ requests[r].pc = "ended" =>
                  /\ Completed(requests[r])
                  /\ Last(requests[r].events).type = "complete"

\* the first chunk held a record that does not parse, a record with an
\* empty answer and the record A/B; A/B was written during that chunk, the
\* record of the second chunk during the second, and the stream completed
C18_Witness ==
    /\ Completed(requests[1])
    /\ Len(requests[1].chunks) = 2
    /\ requests[1].chunks[1] = MixedChunk
    /\ requests[1].parseErrors > 0
    /\ requests[1].skipped > 0
    /\ EmittedDuring(requests[1], 1, Card(<<"A">>, <<"B">>), 1)
    /\ \E i \in DOMAIN requests[1].events :
          /\ requests[1].events[i].type = "flashcard"
          /\ requests[1].events[i].chunk = 2
          /\ requests[1].events[i].question # <<"A">>

(***************************************************************************)
(* C19.  A clean-up timer that fires while a generate request is in flight *)
(* changes no request.  A request in flight keeps the file data it read at *)
(* the lookup, which is the payload of an upload under its session id; and *)
(* when its stream ends after its id has left the store, it writes         *)
(* complete, no error event, and its delete leaves the store unchanged.    *)
(***************************************************************************)
InFlight(req) == req.pc \in {"extracting", "generating", "streaming"}

C19_EvictionDoesNotDisturbRequest ==
    [][ /\ timers' # timers /\ timers' \subseteq timers => requests' = requests
        /\ \A r \in RequestIds :
              /\ InFlight(requests[r]) =>
                    /\ requests'[r].fileData = requests[r].fileData
                    /\ requests'[r].sessionId = requests[r].sessionId
                    /\ \E i \in DOMAIN sessions :
                          /\ sessions[i].sessionId = requests[r].sessionId
                          /\ sessions[i].buffer = requests[r].fileData.buffer
              /\ (/\ requests[r].pc = "streaming"
                  /\ requests[r].sessionId \notin DOMAIN uploadedFiles
                  /\ requests'[r].deletes > requests[r].deletes) =>
                    /\ Completed(requests'[r])
                    /\ ~HasEvent(requests'[r], "error")
                    /\ requests'[r].events =
                          Append(requests[r].events,
                                 PlainEvent("complete", Len(requests[r].chunks)))
                    /\ uploadedFiles' = uploadedFiles ]_vars

\* the only request made was for the only uploaded session; the timer of
\* the session fired while the request was in flight; the request then
\* streamed a card and completed, and its delete found the id absent
C19_Witness ==
    \E r \in RequestIds :
        /\ Len(sessions) = 1
        /\ \A other \in RequestIds \ {r} : requests[other].pc = "idle"
        /\ requests[r].sessionId = sessions[1].sessionId
        /\ requests[r].sessionId \in evicted
        /\ ~requests[r].afterEviction
        /\ Completed(requests[r])
        /\ EmittedCards(requests[r].events) # <<>>
        /\ requests[r].deletes = 1
        /\ ~requests[r].deleteFound

(***************************************************************************)
(* C20.  The card of every flashcard event is the parsed value of a        *)
(* contiguous span of the text delivered so far that matches the record    *)
(* pattern.                                                                *)
(***************************************************************************)
SpanCards(text) ==
    {Card(JsonParse(SubSeq(text, b, MatchAt(text, b) - 1)).question,
          JsonParse(SubSeq(text, b, MatchAt(text, b) - 1)).answer) :
        b \in {j \in DOMAIN text : text[j] = "{" /\ MatchAt(text, j) # 0}}

C20_EveryEventIsASpanOfTheText ==
    \A r \in RequestIds :
        \A card \in Range(EmittedCards(requests[r].events)) :
            card \in SpanCards(AllDelivered(requests[r]))

=============================================================================
